---- MODULE Spec2Model ----
(***************************************************************************)
(* Trade lifecycle, commitment ledger and verification loop of DTREX.      *)
(* The relational store is modelled as two tables (trades, ledger); every  *)
(* SQL statement is one atomic step, and a handler that issues several     *)
(* statements is a sequence of steps held in a slot of `calls`.            *)
(***************************************************************************)
EXTENDS Integers, Sequences, FiniteSets, TLC

VARIABLES trades, nextTradeId, ledger, clock, exchange_wallet, commitment_fee_usd,
          reviews, reputation,
          calls, vpc, vQueue, vHeight, vResults, ticks, cleanup, last

vars == <<trades, nextTradeId, ledger, clock, exchange_wallet, commitment_fee_usd,
          reviews, reputation,
          calls, vpc, vQueue, vHeight, vResults, ticks, cleanup, last>>

\* ------------------------------------------------------------------ bounds
NumUsers == 3
MaxTrades == 2
MaxRows == 2
MaxInflight == 2
MaxHours == 30
MaxReviews == 3

\* --------------------------------------------------------------- constants
MIN_CONFIRMATIONS == 6

Users == 1..NumUsers
TradeIds == 1..MaxTrades
Slots == 1..MaxInflight
VerifySlots == {1}
NULL == 0
OfferTypes == {"item", "xch", "mixed"}
TxIds == {"abc", "def"}

Idle == [op |-> "idle", pc |-> "idle", actor |-> NULL, id |-> NULL, arg |-> "none",
         tx |-> "null", n |-> [hi |-> 0, lo |-> 0]]
NoObs == [in_mempool |-> "none", lookup |-> "none", confirmed |-> FALSE, at |-> 0, height |-> 0]

\* No value is returned to the caller
NoOut == [none |-> TRUE]

\* The outcome of the step just taken: operation, caller, entity, result.
Outcome(op, actor, id, arg, result) ==
    [op |-> op, actor |-> actor, id |-> id, arg |-> arg, result |-> result, obs |-> NoObs,
     out |-> NoOut]

\* The outcome of a step that returns a value to its caller
Returned(op, actor, id, value) ==
    [op |-> op, actor |-> actor, id |-> id, arg |-> "none", result |-> "Ok", obs |-> NoObs,
     out |-> value]

\* ------------------------------------------------------------ trade table
NewTrade(u) ==
    [proposer_id |-> u, acceptor_id |-> NULL, status |-> "proposal",
     trade_type |-> "item_for_item",
     proposer_tracking_number |-> "null", proposer_tracking_carrier |-> "null",
     proposer_shipped_at |-> NULL,
     acceptor_tracking_number |-> "null", acceptor_tracking_carrier |-> "null",
     acceptor_shipped_at |-> NULL]

\* users.reputation_score and users.total_trades before any review
NoReputation == [score |-> 0, total_trades |-> 0]

IsParticipant(t, u) ==
    /\ t \in DOMAIN trades
    /\ (trades[t].proposer_id = u \/ trades[t].acceptor_id = u)

TradeTypeOf_MixedAsItem(offer_type) ==
    IF offer_type = "xch" THEN "item_for_xch" ELSE "item_for_item"

\* trade_type chosen by accept from the offer kind
TradeTypeOf(offer_type) ==
    CASE offer_type = "xch" -> "item_for_xch"
      [] offer_type = "mixed" -> "mixed"
      [] OTHER -> "item_for_item"

TradeUnchanged == UNCHANGED <<trades, nextTradeId>>
LedgerUnchanged == UNCHANGED <<ledger, clock>>
VerifyUnchanged == UNCHANGED <<vpc, vQueue, vHeight, vResults, ticks>>

Finish(c) == [calls EXCEPT ![c] = Idle]

\* A new handler runs in the lowest idle slot (slots are interchangeable)
FreeSlot(c) == calls[c] = Idle /\ \A d \in Slots : d < c => calls[d] # Idle

\* TradeBmc::create: INSERT ... 'proposal' RETURNING id
TradeCreate(u) ==
    /\ nextTradeId <= MaxTrades
    /\ trades' = [t \in DOMAIN trades \cup {nextTradeId} |->
                    IF t = nextTradeId THEN NewTrade(u) ELSE trades[t]]
    /\ nextTradeId' = nextTradeId + 1
    /\ last' = Outcome("trade_create", u, nextTradeId, "none", "Ok")
    /\ UNCHANGED <<ledger, clock, exchange_wallet, commitment_fee_usd, reviews, reputation, calls, vpc, vQueue, vHeight, vResults, ticks, cleanup>>

\* accept's guard "Cannot accept your own trade"
OwnTrade_Never(row, u) == FALSE

OwnTrade(row, u) == row.proposer_id = u

\* TradeBmc::accept, first statement: SELECT ... WHERE id = $1 AND status =
\* 'proposal', followed by the own-trade check on the fetched row.
AcceptSelect(c, u, t, offer) ==
    /\ FreeSlot(c)
    /\ IF t \in DOMAIN trades /\ trades[t].status = "proposal"
       THEN IF OwnTrade(trades[t], u)
            THEN /\ last' = Outcome("accept", u, t, offer, "BadRequest")
                 /\ UNCHANGED calls
            ELSE /\ calls' = [calls EXCEPT ![c] =
                        [op |-> "accept", pc |-> "update", actor |-> u, id |-> t, arg |-> offer,
                         tx |-> "null", n |-> [hi |-> 0, lo |-> 0]]]
                 /\ last' = Outcome("accept", u, t, offer, "Continue")
       ELSE /\ last' = Outcome("accept", u, t, offer, "NotFound")
            /\ UNCHANGED calls
    /\ TradeUnchanged /\ LedgerUnchanged /\ VerifyUnchanged
    /\ UNCHANGED <<exchange_wallet, commitment_fee_usd, reviews, reputation, cleanup>>

AcceptedRow_NoStatus(row, u, offer) ==
    [row EXCEPT !.acceptor_id = u, !.trade_type = TradeTypeOf(offer)]

\* The row written by accept's UPDATE trades SET acceptor_id = $2, status =
\* 'matched', trade_type = $8 WHERE id = $1
AcceptedRow(row, u, offer) ==
    [row EXCEPT !.acceptor_id = u, !.status = "matched", !.trade_type = TradeTypeOf(offer)]

\* TradeBmc::accept, second statement: the UPDATE is keyed by id alone.
AcceptUpdate(c) ==
    /\ calls[c].op = "accept" /\ calls[c].pc = "update"
    /\ LET u == calls[c].actor
           t == calls[c].id
       IN /\ trades' = [x \in DOMAIN trades |->
                          IF x = t THEN AcceptedRow(trades[x], u, calls[c].arg) ELSE trades[x]]
          /\ last' = Outcome("accept", u, t, calls[c].arg, "Ok")
    /\ calls' = Finish(c)
    /\ UNCHANGED nextTradeId
    /\ LedgerUnchanged /\ VerifyUnchanged
    /\ UNCHANGED <<exchange_wallet, commitment_fee_usd, reviews, reputation, cleanup>>

\* TradeBmc::update_status: UPDATE trades SET status = $3 WHERE id = $1 AND
\* (proposer_id = $2 OR acceptor_id = $2)
update_status(op, u, t, status) ==
    /\ IF IsParticipant(t, u)
       THEN /\ trades' = [trades EXCEPT ![t].status = status]
            /\ last' = Outcome(op, u, t, "none", "Ok")
       ELSE /\ UNCHANGED trades
            /\ last' = Outcome(op, u, t, "none", "NotFound")
    /\ UNCHANGED <<nextTradeId, ledger, clock, exchange_wallet, commitment_fee_usd, reviews, reputation, calls, vpc, vQueue, vHeight, vResults, ticks, cleanup>>

TradeCommit_ToEscrow(u, t) == update_status("commit", u, t, "escrow")

\* rpc_trade_commit
TradeCommit(u, t) == update_status("commit", u, t, "committed")

\* rpc_trade_complete
TradeComplete(u, t) == update_status("complete", u, t, "completed")

CancelMatches_AnyParticipant(row, u) ==
    (row.proposer_id = u \/ row.acceptor_id = u) /\ row.status \in {"proposal", "matched"}

\* ... AND proposer_id = $2 AND status IN ('proposal', 'matched')
CancelMatches(row, u) == row.proposer_id = u /\ row.status \in {"proposal", "matched"}

\* TradeBmc::cancel: UPDATE trades SET status = 'cancelled' WHERE id = $1 AND
\* proposer_id = $2 AND status IN ('proposal', 'matched')
TradeCancel(u, t) ==
    /\ IF t \in DOMAIN trades /\ CancelMatches(trades[t], u)
       THEN /\ trades' = [trades EXCEPT ![t].status = "cancelled"]
            /\ last' = Outcome("cancel", u, t, "none", "Ok")
       ELSE /\ UNCHANGED trades
            /\ last' = Outcome("cancel", u, t, "none", "NotFound")
    /\ UNCHANGED <<nextTradeId, ledger, clock, exchange_wallet, commitment_fee_usd, reviews, reputation, calls, vpc, vQueue, vHeight, vResults, ticks, cleanup>>

AdminCancelMatches_NotCommitted(row) == row.status \in {"proposal", "matched"}

\* ... AND status IN ('proposal', 'matched', 'committed')
AdminCancelMatches(row) == row.status \in {"proposal", "matched", "committed"}

\* TradeBmc::admin_cancel: UPDATE trades SET status = 'cancelled' WHERE id =
\* $1 AND status IN ('proposal', 'matched', 'committed')
AdminCancel(t) ==
    /\ IF t \in DOMAIN trades /\ AdminCancelMatches(trades[t])
       THEN /\ trades' = [trades EXCEPT ![t].status = "cancelled"]
            /\ last' = Outcome("admin_cancel", NULL, t, "none", "Ok")
       ELSE /\ UNCHANGED trades
            /\ last' = Outcome("admin_cancel", NULL, t, "none", "NotFound")
    /\ UNCHANGED <<nextTradeId, ledger, clock, exchange_wallet, commitment_fee_usd, reviews, reputation, calls, vpc, vQueue, vHeight, vResults, ticks, cleanup>>

Without(t) == [x \in DOMAIN trades \ {t} |-> trades[x]]

DeleteMatches_AnyStatus(row, u) == row.proposer_id = u

\* ... AND proposer_id = $2 AND status = 'proposal'
DeleteMatches(row, u) == row.proposer_id = u /\ row.status = "proposal"

\* TradeBmc::delete: DELETE FROM trades WHERE id = $1 AND proposer_id = $2
\* AND status = 'proposal'
TradeDelete(u, t) ==
    /\ IF t \in DOMAIN trades /\ DeleteMatches(trades[t], u)
       THEN /\ trades' = Without(t)
            /\ last' = Outcome("delete", u, t, "none", "Ok")
       ELSE /\ UNCHANGED trades
            /\ last' = Outcome("delete", u, t, "none", "NotFound")
    /\ UNCHANGED <<nextTradeId, ledger, clock, exchange_wallet, commitment_fee_usd, reviews, reputation, calls, vpc, vQueue, vHeight, vResults, ticks, cleanup>>

\* TradeBmc::admin_delete: DELETE FROM trades WHERE id = $1 AND status IN
\* ('proposal', 'cancelled')
AdminDelete(t) ==
    /\ IF /\ t \in DOMAIN trades
          /\ trades[t].status \in {"proposal", "cancelled"}
       THEN /\ trades' = Without(t)
            /\ last' = Outcome("admin_delete", NULL, t, "none", "Ok")
       ELSE /\ UNCHANGED trades
            /\ last' = Outcome("admin_delete", NULL, t, "none", "NotFound")
    /\ UNCHANGED <<nextTradeId, ledger, clock, exchange_wallet, commitment_fee_usd, reviews, reputation, calls, vpc, vQueue, vHeight, vResults, ticks, cleanup>>

\* ----------------------------------------------------------- ledger table
NullStr == "null"
NoCount == -1
NoHeight == -1
\* amount_mojos is an i64; it is held as hi * 10^9 + lo with 0 <= lo < 10^9
Mojos(hi, lo) == [hi |-> hi, lo |-> lo]
Less(a, b) == a.hi < b.hi \/ (a.hi = b.hi /\ a.lo < b.lo)
MIN_AMOUNT_MOJOS == Mojos(0, 1000)
MAX_AMOUNT_MOJOS == Mojos(10000, 0)
Amounts == {Mojos(0, 999), Mojos(0, 2000)}
WalletAddress == "xch1exchange"
ConfirmedHeights == {100, 101, 107}
CurrentHeights == {104, 106}
STALE_MESSAGE == "Transaction did not appear in mempool within 24 hours"

\* INSERT INTO trade_transactions (...) VALUES (..., 'pending')
NewRow(t, u, tx_type, tx_id, to, amount, now) ==
    [trade_id |-> t, user_id |-> u, tx_type |-> tx_type, tx_id |-> tx_id,
     coin_id |-> NullStr, to_address |-> to, amount_mojos |-> amount,
     status |-> "pending", confirmations |-> NoCount, error_message |-> NullStr,
     created_at |-> now, mempool_at |-> NULL, confirmed_at |-> NULL]

RowIds == 1..MaxRows

\* The commitment fee is an f64 of USD; it is held in cents
DEFAULT_FEE_CENTS == 100
NoFee == 0
Fees == {NoFee, DEFAULT_FEE_CENTS, 250}
\* No row in exchange_config for the key
Unset == "unset"

\* f64::to_string of the fee, as the value column keeps it
FeeToString(cents) ==
    CASE cents = 100 -> "1"
      [] cents = 250 -> "2.5"
      [] OTHER -> "0"

\* value.parse::<f64>() of the stored text; -1 stands for a parse error
FeeParse(text) ==
    CASE text = "1" -> 100
      [] text = "2.5" -> 250
      [] text = "0" -> 0
      [] OTHER -> -1

\* get_commitment_fee_usd: the default when the key is absent
get_commitment_fee_usd ==
    IF commitment_fee_usd = Unset THEN DEFAULT_FEE_CENTS ELSE FeeParse(commitment_fee_usd)

\* rpc_config_set_exchange_wallet (admin): upsert of exchange_wallet_address,
\* then upsert of commitment_fee_usd (the default when the parameter is absent)
ConfigSetExchangeWallet(fee) ==
    /\ exchange_wallet' = WalletAddress
    /\ commitment_fee_usd' = FeeToString(IF fee = NoFee THEN DEFAULT_FEE_CENTS ELSE fee)
    /\ last' = Outcome("config_set_exchange_wallet", NULL, NULL, WalletAddress, "Ok")
    /\ TradeUnchanged /\ LedgerUnchanged /\ VerifyUnchanged
    /\ UNCHANGED <<reviews, reputation, calls, cleanup>>

InFlightCreates == Cardinality({c \in Slots : calls[c].op = "create_pending"})

DetailsCheck_StatusFirst(u, t) ==
    IF t \notin DOMAIN trades THEN "NotFound"
    ELSE IF trades[t].status # "matched" /\ trades[t].status # "committed" THEN "InvalidState"
    ELSE IF ~IsParticipant(t, u) THEN "Auth"
    ELSE "Ok"

\* get_commitment_details: participant and status checks on the fetched trade
DetailsCheck(u, t) ==
    IF t \notin DOMAIN trades THEN "NotFound"
    ELSE IF ~IsParticipant(t, u) THEN "Auth"
    ELSE IF trades[t].status # "matched" /\ trades[t].status # "committed" THEN "InvalidState"
    ELSE "Ok"

\* rpc_commitment_create_pending: amount validation, then the trade SELECT of
\* get_commitment_details and its checks.
CreatePendingBegin(c, u, t, amount) ==
    /\ FreeSlot(c)
    /\ Len(ledger) + InFlightCreates < MaxRows
    /\ LET r == IF Less(amount, MIN_AMOUNT_MOJOS) \/ Less(MAX_AMOUNT_MOJOS, amount)
                THEN "InvalidParams" ELSE DetailsCheck(u, t)
       IN IF r = "Ok"
          THEN /\ calls' = [calls EXCEPT ![c] =
                     [op |-> "create_pending", pc |-> "wallet", actor |-> u, id |-> t,
                      arg |-> "none", tx |-> NullStr, n |-> amount]]
               /\ last' = Outcome("create_pending", u, t, "none", "Continue")
          ELSE /\ UNCHANGED calls
               /\ last' = Outcome("create_pending", u, t, "none", r)
    /\ TradeUnchanged /\ LedgerUnchanged /\ VerifyUnchanged
    /\ UNCHANGED <<exchange_wallet, commitment_fee_usd, reviews, reputation, cleanup>>

\* get_exchange_wallet / get_commitment_fee_usd inside get_commitment_details
CreatePendingWallet(c) ==
    /\ calls[c].op = "create_pending" /\ calls[c].pc = "wallet"
    /\ IF exchange_wallet = ""
       THEN /\ calls' = Finish(c)
            /\ last' = Outcome("create_pending", calls[c].actor, calls[c].id, "none", "Config")
       ELSE /\ calls' = [calls EXCEPT ![c].pc = "participant", ![c].arg = exchange_wallet]
            /\ last' = Outcome("create_pending", calls[c].actor, calls[c].id, "none", "Continue")
    /\ TradeUnchanged /\ LedgerUnchanged /\ VerifyUnchanged
    /\ UNCHANGED <<exchange_wallet, commitment_fee_usd, reviews, reputation, cleanup>>

\* TransactionBmc::create, first statement: SELECT id FROM trades WHERE id =
\* $1 AND (proposer_id = $2 OR acceptor_id = $2)
CreateParticipant(c) ==
    /\ calls[c].op = "create_pending" /\ calls[c].pc = "participant"
    /\ IF IsParticipant(calls[c].id, calls[c].actor)
       THEN /\ calls' = [calls EXCEPT ![c].pc = "existing"]
            /\ last' = Outcome("create_pending", calls[c].actor, calls[c].id, "none", "Continue")
       ELSE /\ calls' = Finish(c)
            /\ last' = Outcome("create_pending", calls[c].actor, calls[c].id, "none", "Auth")
    /\ TradeUnchanged /\ LedgerUnchanged /\ VerifyUnchanged
    /\ UNCHANGED <<exchange_wallet, commitment_fee_usd, reviews, reputation, cleanup>>

Blocking_OnlyMempool(status) == status = "mempool"

Blocking_OnlyPending(status) == status = "pending"

Blocking_NotConfirmed(status) == status \notin {"failed", "refunded", "confirmed"}

\* ... AND status NOT IN ('failed', 'refunded')
Blocking(status) == status \notin {"failed", "refunded"}

\* TransactionBmc::create, the "existing" query on (trade, user, tx_type)
Existing(L, t, u, tx_type) ==
    \E i \in DOMAIN L :
        /\ L[i].trade_id = t /\ L[i].user_id = u /\ L[i].tx_type = tx_type
        /\ Blocking(L[i].status)

\* TransactionBmc::create, second statement: the check for an existing row
CreateExisting(c) ==
    /\ calls[c].op = "create_pending" /\ calls[c].pc = "existing"
    /\ IF Existing(ledger, calls[c].id, calls[c].actor, "commitment_fee")
       THEN /\ calls' = Finish(c)
            /\ last' = Outcome("create_pending", calls[c].actor, calls[c].id, "none", "InvalidState")
       ELSE /\ calls' = [calls EXCEPT ![c].pc = "insert"]
            /\ last' = Outcome("create_pending", calls[c].actor, calls[c].id, "none", "Continue")
    /\ TradeUnchanged /\ LedgerUnchanged /\ VerifyUnchanged
    /\ UNCHANGED <<exchange_wallet, commitment_fee_usd, reviews, reputation, cleanup>>

\* TransactionBmc::create called with a TradeTransactionForCreate whose tx_id
\* is tx (Some(..) or None): its first statement, the participant SELECT.
Create(c, u, t, tx) ==
    /\ FreeSlot(c)
    /\ Len(ledger) + InFlightCreates < MaxRows
    /\ IF IsParticipant(t, u)
       THEN /\ calls' = [calls EXCEPT ![c] =
                  [op |-> "create_pending", pc |-> "existing", actor |-> u, id |-> t,
                   arg |-> WalletAddress, tx |-> tx, n |-> Mojos(0, 2000)]]
            /\ last' = Outcome("create_pending", u, t, "none", "Continue")
       ELSE /\ UNCHANGED calls
            /\ last' = Outcome("create_pending", u, t, "none", "Auth")
    /\ TradeUnchanged /\ LedgerUnchanged /\ VerifyUnchanged
    /\ UNCHANGED <<exchange_wallet, commitment_fee_usd, reviews, reputation, cleanup>>

\* TransactionBmc::create, third statement: the INSERT (tx_type
\* "commitment_fee"; tx_id is None when the call comes from the handler)
CreateInsert(c) ==
    /\ calls[c].op = "create_pending" /\ calls[c].pc = "insert"
    /\ ledger' = Append(ledger, NewRow(calls[c].id, calls[c].actor, "commitment_fee",
                                       calls[c].tx, calls[c].arg, calls[c].n, clock))
    /\ calls' = Finish(c)
    /\ last' = Outcome("create_pending", calls[c].actor, calls[c].id, "none", "Ok")
    /\ TradeUnchanged /\ VerifyUnchanged
    /\ UNCHANGED <<clock, exchange_wallet, commitment_fee_usd, reviews, reputation, cleanup>>

\* WHERE id = $2 AND user_id = $3 AND status = 'pending'
SubmitMatches_AnyStatus(row, u) == row.user_id = u

SubmitMatches_AnyUser(row, u) == row.status = "pending"

SubmitMatches_OpenTrade(row, u) ==
    /\ row.user_id = u /\ row.status = "pending"
    /\ row.trade_id \in DOMAIN trades /\ trades[row.trade_id].status # "cancelled"

SubmitMatches(row, u) == row.user_id = u /\ row.status = "pending"

\* TransactionBmc::submit_tx_id
SubmitTxId(u, i, tx) ==
    /\ IF i \in DOMAIN ledger /\ SubmitMatches(ledger[i], u)
       THEN /\ ledger' = [ledger EXCEPT ![i].tx_id = tx, ![i].status = "mempool",
                                        ![i].mempool_at = clock + 1]
            /\ clock' = clock + 1
            /\ last' = Outcome("submit_tx_id", u, i, tx, "Ok")
       ELSE /\ LedgerUnchanged
            /\ last' = Outcome("submit_tx_id", u, i, tx, "NotFound")
    /\ TradeUnchanged /\ VerifyUnchanged
    /\ UNCHANGED <<exchange_wallet, commitment_fee_usd, reviews, reputation, calls, cleanup>>

\* WHERE tx_id = $3 AND status IN ('pending', 'mempool')
OpenWithTx_AnyStatus(row, tx) == row.tx_id = tx

OpenWithTx(row, tx) == row.tx_id = tx /\ row.status \in {"pending", "mempool"}

Affected(L, tx) == {i \in DOMAIN L : OpenWithTx(L[i], tx)}

\* confirm's UPDATE ... SET status = 'confirmed', coin_id, confirmations,
\* confirmed_at = NOW()
ConfirmRows(L, tx, coin, confs, now) ==
    [i \in DOMAIN L |->
        IF OpenWithTx(L[i], tx)
        THEN [L[i] EXCEPT !.status = "confirmed", !.coin_id = coin,
                          !.confirmations = confs, !.confirmed_at = now]
        ELSE L[i]]

FailRows_ClearTx(L, tx, msg) ==
    [i \in DOMAIN L |->
        IF OpenWithTx(L[i], tx)
        THEN [L[i] EXCEPT !.status = "failed", !.error_message = msg, !.tx_id = NullStr]
        ELSE L[i]]

\* fail's UPDATE ... SET status = 'failed', error_message
FailRows(L, tx, msg) ==
    [i \in DOMAIN L |->
        IF OpenWithTx(L[i], tx)
        THEN [L[i] EXCEPT !.status = "failed", !.error_message = msg]
        ELSE L[i]]

\* TransactionBmc::confirm (system context)
Confirm(tx, coin, confs) ==
    /\ IF Affected(ledger, tx) # {}
       THEN /\ ledger' = ConfirmRows(ledger, tx, coin, confs, clock + 1)
            /\ clock' = clock + 1
            /\ last' = Outcome("confirm", NULL, NULL, tx, "Ok")
       ELSE /\ LedgerUnchanged
            /\ last' = Outcome("confirm", NULL, NULL, tx, "NotFound")
    /\ TradeUnchanged /\ VerifyUnchanged
    /\ UNCHANGED <<exchange_wallet, commitment_fee_usd, reviews, reputation, calls, cleanup>>

\* TransactionBmc::fail (system context): Ok whatever the UPDATE matched
Fail(tx, msg) ==
    /\ ledger' = FailRows(ledger, tx, msg)
    /\ last' = Outcome("fail", NULL, NULL, tx, "Ok")
    /\ TradeUnchanged /\ VerifyUnchanged
    /\ UNCHANGED <<clock, exchange_wallet, commitment_fee_usd, reviews, reputation, calls, cleanup>>

\* ----------------------------------------------------------- stale cleanup
STALE_HOURS == 24
ElapsedHours == 25
NoCleanup == [queue |-> <<>>, at |-> 0]

\* Time passes (the clock counts hours; a statement that stamps NOW() moves it
\* by one so that stamps are distinct)
Elapse ==
    /\ clock + ElapsedHours <= MaxHours
    /\ clock' = clock + ElapsedHours
    /\ last' = Outcome("elapse", NULL, NULL, "none", "Ok")
    /\ UNCHANGED <<trades, nextTradeId, ledger, exchange_wallet, commitment_fee_usd, reviews, reputation, calls, vpc, vQueue, vHeight, vResults, ticks, cleanup>>

StaleAge_After48(created_at, now) == created_at < now - 48

\* created_at < NOW() - INTERVAL '24 hours'
StaleAge(created_at, now) == created_at < now - STALE_HOURS

\* WHERE status = 'pending' AND tx_id IS NOT NULL AND created_at < ...
Stale(row, now) ==
    /\ row.status = "pending"
    /\ row.tx_id # NullStr
    /\ StaleAge(row.created_at, now)

\* the orders in which fetch_all may return the rows S (no ORDER BY)
Orders(S) ==
    {q \in [1..Cardinality(S) -> S] : \A a, b \in 1..Cardinality(S) : a # b => q[a] # q[b]}

\* cleanup_stale_transactions, the SELECT tx_id ... of the stale rows
CleanupSelect ==
    /\ cleanup.queue = <<>>
    /\ \E q \in Orders({i \in DOMAIN ledger : Stale(ledger[i], clock)}) :
          LET fetched == [k \in DOMAIN q |-> ledger[q[k]].tx_id]
          IN IF fetched = <<>>
             THEN /\ UNCHANGED cleanup
                  /\ last' = Outcome("cleanup", NULL, NULL, "none", "Empty")
             ELSE /\ cleanup' = [queue |-> fetched, at |-> clock]
                  /\ last' = Outcome("cleanup", NULL, NULL, "none", "Started")
    /\ TradeUnchanged /\ LedgerUnchanged /\ VerifyUnchanged
    /\ UNCHANGED <<exchange_wallet, commitment_fee_usd, reviews, reputation, calls>>

\* cleanup_stale_transactions, one iteration of `for (tx_id,) in stale`:
\* TransactionBmc::fail(tx_id, "Transaction did not appear ...")
CleanupFail ==
    /\ cleanup.queue # <<>>
    /\ ledger' = FailRows(ledger, Head(cleanup.queue), STALE_MESSAGE)
    /\ cleanup' = [cleanup EXCEPT !.queue = Tail(cleanup.queue)]
    /\ last' = Outcome("cleanup_fail", NULL, NULL, Head(cleanup.queue),
                       IF Tail(cleanup.queue) = <<>> THEN "Done" ELSE "Continue")
    /\ TradeUnchanged /\ VerifyUnchanged
    /\ UNCHANGED <<clock, exchange_wallet, commitment_fee_usd, reviews, reputation, calls>>

\* ------------------------------------------------------ verification loop
RECURSIVE OrderByMempoolAt_NewestFirst(_, _)
OrderByMempoolAt_NewestFirst(L, S) ==
    IF S = {} THEN <<>>
    ELSE LET m == CHOOSE i \in S : \A j \in S : L[i].mempool_at >= L[j].mempool_at
         IN <<m>> \o OrderByMempoolAt_NewestFirst(L, S \ {m})

RECURSIVE OrderByMempoolAt(_, _)
OrderByMempoolAt(L, S) ==
    IF S = {} THEN <<>>
    ELSE LET m == CHOOSE i \in S : \A j \in S : L[i].mempool_at <= L[j].mempool_at
         IN <<m>> \o OrderByMempoolAt(L, S \ {m})

\* TransactionBmc::list_pending_verification: SELECT * ... WHERE status =
\* 'mempool' ORDER BY mempool_at ASC (the rows as fetched)
fetch_all_OldestOnly(rows) == IF rows = <<>> THEN <<>> ELSE <<rows[1]>>

\* .fetch_all(mm.pool()): every row the query selects (no LIMIT)
fetch_all(rows) == rows

list_pending_verification(L) ==
    LET ids == fetch_all(OrderByMempoolAt(L, {i \in DOMAIN L : L[i].status = "mempool"}))
    IN [k \in 1..Len(ids) |-> [id |-> ids[k], tx_id |-> L[ids[k]].tx_id]]

\* How a tick may go before its for loop: the fetch of the Mempool rows fails,
\* the observer client cannot be built, the height query fails, the height is
\* 0, or the loop is entered.
TickOutcomes == {"FetchErr", "ClientErr", "StateErr", "NoHeight", "Started"}

\* the outcomes verify_pending_transactions returns as Err
TickFailures == {"FetchErr", "ClientErr", "StateErr"}

AfterTick_ExitOnErr(outcome) == IF outcome \in TickFailures THEN "stopped" ELSE "idle"

\* start_verification_service: `if let Err(e) = ... { error!(..) }` inside
\* `loop`, so the task awaits the next interval tick whatever the tick returned
AfterTick(outcome) == "idle"

\* interval.tick() fired and verify_pending_transactions up to the for loop
TickStart(outcome, h) ==
    /\ vpc = "idle"
    /\ ticks' = 1 - ticks
    /\ LET pending == list_pending_verification(ledger)
       IN IF outcome = "FetchErr"
          THEN /\ last' = Outcome("tick", NULL, NULL, "none", "FetchErr")
               /\ vpc' = AfterTick(outcome)
               /\ UNCHANGED <<vQueue, vHeight, vResults>>
          ELSE IF pending = <<>>
          THEN /\ last' = Outcome("tick", NULL, NULL, "none", "Empty")
               /\ vpc' = AfterTick("Empty")
               /\ UNCHANGED <<vQueue, vHeight, vResults>>
          ELSE IF outcome = "Started"
          THEN /\ vpc' = "loop"
               /\ vQueue' = pending
               /\ vHeight' = h
               /\ vResults' = <<>>
               /\ last' = Outcome("tick", NULL, NULL, "none", "Started")
          ELSE /\ last' = Outcome("tick", NULL, NULL, "none", outcome)
               /\ vpc' = AfterTick(outcome)
               /\ UNCHANGED <<vQueue, vHeight, vResults>>
    /\ TradeUnchanged /\ LedgerUnchanged
    /\ UNCHANGED <<exchange_wallet, commitment_fee_usd, reviews, reputation, calls, cleanup>>

\* What the chain observer may answer for one transaction
ObserverAnswers ==
    {[in_mempool |-> m, lookup |-> "none", confirmed |-> FALSE, at |-> NoHeight] :
        m \in {"err", "yes"}}
    \cup {[in_mempool |-> "no", lookup |-> "err", confirmed |-> FALSE, at |-> NoHeight]}
    \cup {[in_mempool |-> "no", lookup |-> "ok", confirmed |-> FALSE, at |-> NoHeight]}
    \cup {[in_mempool |-> "no", lookup |-> "ok", confirmed |-> TRUE, at |-> a] :
            a \in ConfirmedHeights \cup {NoHeight}}

saturating_sub(a, b) == IF a >= b THEN a - b ELSE 0

\* confirmed_at_height.map(|h| current_height.saturating_sub(h)).unwrap_or(0)
Confirmations(obs, height) ==
    IF obs.at = NoHeight THEN 0 ELSE saturating_sub(height, obs.at)

Enough_Always(confs) == TRUE

\* confirmations >= MIN_CONFIRMATIONS
Enough(confs) == confs >= MIN_CONFIRMATIONS

\* verify_single_transaction: whether the answers lead to the confirm call
CallsConfirm(obs, height) ==
    /\ obs.in_mempool = "no"
    /\ obs.lookup = "ok"
    /\ obs.confirmed
    /\ Enough(Confirmations(obs, height))

LookupFailed_MarkFailed(L, tx) == FailRows(L, tx, "lookup failed")

\* the Err(e) arm of the lookup: a warning is logged, nothing is written
LookupFailed(L, tx) == L

AfterItem_AbortOnErr(result, done, n) ==
    IF result = "Err" \/ done >= n THEN "done" ELSE "loop"

\* the for loop goes on to the next fetched row whatever the result was
AfterItem(result, done, n) == IF done >= n THEN "done" ELSE "loop"

Observed(item, obs, height, result) ==
    [op |-> "verify", actor |-> NULL, id |-> item.id, arg |-> item.tx_id,
     result |-> result,
     obs |-> [in_mempool |-> obs.in_mempool, lookup |-> obs.lookup,
              confirmed |-> obs.confirmed, at |-> obs.at, height |-> height],
     out |-> NoOut]

\* One iteration of the for loop: verify_single_transaction on the next
\* fetched row and the match on its result.
VerifySingle(obs) ==
    /\ vpc = "loop"
    /\ LET item == vQueue[Len(vResults) + 1]
           tx == item.tx_id
           confs == Confirmations(obs, vHeight)
           result ==
               IF tx = NullStr THEN "Skipped"
               ELSE IF obs.in_mempool = "err" THEN "Err"
               ELSE IF CallsConfirm(obs, vHeight)
                    THEN (IF Affected(ledger, tx) # {} THEN "Confirmed" ELSE "Err")
                    ELSE "Waiting"
       IN /\ IF result = "Confirmed"
             THEN /\ ledger' = ConfirmRows(ledger, tx, "", confs, clock + 1)
                  /\ clock' = clock + 1
             ELSE IF tx # NullStr /\ obs.in_mempool = "no" /\ obs.lookup = "err"
             THEN /\ ledger' = LookupFailed(ledger, tx)
                  /\ UNCHANGED clock
             ELSE LedgerUnchanged
          /\ vResults' = Append(vResults, result)
          /\ vpc' = AfterItem(result, Len(vResults) + 1, Len(vQueue))
          /\ last' = Observed(item, obs, vHeight, result)
    /\ TradeUnchanged
    /\ UNCHANGED <<vQueue, vHeight, ticks, exchange_wallet, commitment_fee_usd, reviews, reputation, calls, cleanup>>

\* verify_pending_transactions returns Ok(()); the service awaits the next tick
TickEnd ==
    /\ vpc = "done"
    /\ vpc' = "idle"
    /\ vQueue' = <<>>
    /\ vResults' = <<>>
    /\ vHeight' = 0
    /\ UNCHANGED ticks
    /\ last' = Outcome("tick", NULL, NULL, "none", "Done")
    /\ TradeUnchanged /\ LedgerUnchanged
    /\ UNCHANGED <<exchange_wallet, commitment_fee_usd, reviews, reputation, calls, cleanup>>

\* ------------------------------------------------------------- reads
GetMatches_AnyUser(row, u) == TRUE

\* WHERE clause of get: id = $1 AND (proposer_id = $2 OR acceptor_id = $2)
GetMatches(row, u) == row.proposer_id = u \/ row.acceptor_id = u

\* TradeBmc::get: the participant's SELECT; no row is NotFound
TradeGet(u, t) ==
    /\ IF t \in DOMAIN trades /\ GetMatches(trades[t], u)
       THEN last' = Returned("get", u, t, trades[t])
       ELSE last' = Outcome("get", u, t, "none", "NotFound")
    /\ TradeUnchanged /\ LedgerUnchanged /\ VerifyUnchanged
    /\ UNCHANGED <<exchange_wallet, commitment_fee_usd, reviews, reputation, calls, cleanup>>

\* TradeBmc::get_public / rpc_trade_get_public: SELECT * FROM trades WHERE
\* id = $1, for a reader without a session
TradeGetPublic(t) ==
    /\ IF t \in DOMAIN trades
       THEN last' = Returned("get_public", NULL, t, trades[t])
       ELSE last' = Outcome("get_public", NULL, t, "none", "NotFound")
    /\ TradeUnchanged /\ LedgerUnchanged /\ VerifyUnchanged
    /\ UNCHANGED <<exchange_wallet, commitment_fee_usd, reviews, reputation, calls, cleanup>>

memo_ByStatus(trade_id, user_id) ==
    <<"DTREX-COMMIT", trade_id, IF trades[trade_id].status = "committed" THEN NULL ELSE user_id>>

\* format!("DTREX-COMMIT-{}-{}", trade_id, user_id)
memo(trade_id, user_id) == <<"DTREX-COMMIT", trade_id, user_id>>

\* proposer_commit_status / acceptor_commit_status: no statement writes these
\* columns, so unwrap_or_else gives "pending"
CommitStatus == "pending"

\* The CommitmentDetails value built by get_commitment_details
CommitmentDetails(u, t) ==
    [trade_id |-> t,
     exchange_wallet_address |-> exchange_wallet,
     commitment_fee_usd |-> get_commitment_fee_usd,
     user_role |-> IF u = trades[t].proposer_id THEN "proposer" ELSE "acceptor",
     user_commit_status |-> CommitStatus,
     other_commit_status |-> CommitStatus,
     memo |-> memo(t, u)]

\* rpc_commitment_get_details -> get_commitment_details: the trade SELECT and
\* its checks, then the two exchange_config SELECTs; nothing is written
GetCommitmentDetails(u, t) ==
    /\ LET r == DetailsCheck(u, t)
       IN IF r # "Ok" THEN last' = Outcome("get_details", u, t, "none", r)
          ELSE IF exchange_wallet = "" \/ get_commitment_fee_usd < 0
               THEN last' = Outcome("get_details", u, t, "none", "Config")
               ELSE last' = Returned("get_details", u, t, CommitmentDetails(u, t))
    /\ TradeUnchanged /\ LedgerUnchanged /\ VerifyUnchanged
    /\ UNCHANGED <<exchange_wallet, commitment_fee_usd, reviews, reputation, calls, cleanup>>

\* ---------------------------------------------------------- add_tracking
TrackingNumbers == {"TN1", "TN2"}
Carriers == {"ups"}

\* The columns add_tracking picks: the proposer's when the fetched trade's
\* proposer is the caller, the acceptor's otherwise
SideOf(row, u) == IF row.proposer_id = u THEN "proposer" ELSE "acceptor"

\* TradeBmc::add_tracking, first statement: Self::get(ctx, mm, id)
AddTrackingGet(c, u, t, number, carrier) ==
    /\ FreeSlot(c)
    /\ IF t \in DOMAIN trades /\ GetMatches(trades[t], u)
       THEN /\ calls' = [calls EXCEPT ![c] =
                   [op |-> "add_tracking", pc |-> "update", actor |-> u, id |-> t,
                    side |-> SideOf(trades[t], u), number |-> number, carrier |-> carrier]]
            /\ last' = Outcome("add_tracking", u, t, number, "Continue")
       ELSE /\ UNCHANGED calls
            /\ last' = Outcome("add_tracking", u, t, number, "NotFound")
    /\ TradeUnchanged /\ LedgerUnchanged /\ VerifyUnchanged
    /\ UNCHANGED <<exchange_wallet, commitment_fee_usd, reviews, reputation, cleanup>>

\* SET {side}_tracking_number = $2, {side}_tracking_carrier = $3,
\* {side}_shipped_at = NOW()
TrackedRow(row, side, number, carrier, now) ==
    IF side = "proposer"
    THEN [row EXCEPT !.proposer_tracking_number = number,
                     !.proposer_tracking_carrier = carrier,
                     !.proposer_shipped_at = now]
    ELSE [row EXCEPT !.acceptor_tracking_number = number,
                     !.acceptor_tracking_carrier = carrier,
                     !.acceptor_shipped_at = now]

\* TradeBmc::add_tracking, second statement: UPDATE trades SET ... WHERE id =
\* $1, with no look at the status or at rows_affected. NOW() is a time after
\* the clock's last stamp.
AddTrackingUpdate(c) ==
    /\ calls[c].op = "add_tracking" /\ calls[c].pc = "update"
    /\ LET t == calls[c].id
       IN /\ trades' = [x \in DOMAIN trades |->
                          IF x = t
                          THEN TrackedRow(trades[x], calls[c].side, calls[c].number,
                                          calls[c].carrier, clock + 1)
                          ELSE trades[x]]
          /\ last' = Outcome("add_tracking", calls[c].actor, t, calls[c].number, "Ok")
    /\ calls' = Finish(c)
    /\ UNCHANGED nextTradeId
    /\ LedgerUnchanged /\ VerifyUnchanged
    /\ UNCHANGED <<exchange_wallet, commitment_fee_usd, reviews, reputation, cleanup>>

\* -------------------------------------------------------------- reviews
\* The four i16 scores of ReviewForCreate
Scores == {[timeliness |-> 5, packaging |-> 5, value_honesty |-> 5, state_accuracy |-> 5],
           [timeliness |-> 1, packaging |-> 2, value_honesty |-> 3, state_accuracy |-> 4]}

\* overall = timeliness * 0.20 + packaging * 0.25 + value_honesty * 0.30 +
\* state_accuracy * 0.25, held in hundredths
Overall(s) ==
    20 * s.timeliness + 25 * s.packaging + 30 * s.value_honesty + 25 * s.state_accuracy

InFlightReviews ==
    Cardinality({c \in Slots : calls[c].op = "review" /\ calls[c].pc = "insert"})

ReviewMatches_AnyStatus(row, u) == row.proposer_id = u \/ row.acceptor_id = u

\* ... AND (proposer_id = $2 OR acceptor_id = $2) AND status = 'completed'
ReviewMatches(row, u) ==
    (row.proposer_id = u \/ row.acceptor_id = u) /\ row.status = "completed"

\* ReviewBmc::create, first statement: the SELECT of the completed trade of
\* the caller, then the choice of the reviewee and the overall score.
ReviewSelect(c, u, t, s) ==
    /\ FreeSlot(c)
    /\ Len(reviews) + InFlightReviews < MaxReviews
    /\ IF t \in DOMAIN trades /\ ReviewMatches(trades[t], u)
       THEN IF trades[t].proposer_id = u /\ trades[t].acceptor_id = NULL
            THEN /\ UNCHANGED calls
                 /\ last' = Outcome("review", u, t, "none", "BadRequest")
            ELSE /\ calls' = [calls EXCEPT ![c] =
                        [op |-> "review", pc |-> "insert", actor |-> u, id |-> t,
                         reviewee |-> IF trades[t].proposer_id = u
                                      THEN trades[t].acceptor_id
                                      ELSE trades[t].proposer_id,
                         overall |-> Overall(s)]]
                 /\ last' = Outcome("review", u, t, "none", "Continue")
       ELSE /\ UNCHANGED calls
            /\ last' = Outcome("review", u, t, "none", "NotFound")
    /\ TradeUnchanged /\ LedgerUnchanged /\ VerifyUnchanged
    /\ UNCHANGED <<exchange_wallet, commitment_fee_usd, reviews, reputation, cleanup>>

\* INSERT INTO trade_reviews (trade_id, reviewer_id, reviewee_id, ...,
\* overall_score, comment)
NewReview(t, reviewer, reviewee, overall) ==
    [trade_id |-> t, reviewer_id |-> reviewer, reviewee_id |-> reviewee,
     overall_score |-> overall]

\* ReviewBmc::create, second statement: the INSERT ... RETURNING id
ReviewInsert(c) ==
    /\ calls[c].op = "review" /\ calls[c].pc = "insert"
    /\ reviews' = Append(reviews, NewReview(calls[c].id, calls[c].actor,
                                            calls[c].reviewee, calls[c].overall))
    /\ calls' = [calls EXCEPT ![c].pc = "reputation"]
    /\ last' = Outcome("review", calls[c].actor, calls[c].id, "none", "Inserted")
    /\ UNCHANGED reputation
    /\ TradeUnchanged /\ LedgerUnchanged /\ VerifyUnchanged
    /\ UNCHANGED <<exchange_wallet, commitment_fee_usd, cleanup>>

ReviewsOf(u) == {i \in DOMAIN reviews : reviews[i].reviewee_id = u}

RECURSIVE SumOverall(_)
SumOverall(S) ==
    IF S = {} THEN 0
    ELSE LET i == CHOOSE x \in S : TRUE
         IN reviews[i].overall_score + SumOverall(S \ {i})

\* COALESCE(AVG(overall_score), 0) and COUNT(DISTINCT trade_id) over the
\* reviews whose reviewee is the user
Reputation(u) ==
    [score |-> IF ReviewsOf(u) = {} THEN 0
               ELSE SumOverall(ReviewsOf(u)) \div Cardinality(ReviewsOf(u)),
     total_trades |-> Cardinality({reviews[i].trade_id : i \in ReviewsOf(u)})]

\* ReviewBmc::create, third statement: update_reputation's UPDATE users; a
\* storage error ends the handler with InternalServer after the INSERT.
ReviewReputation(c, ok) ==
    /\ calls[c].op = "review" /\ calls[c].pc = "reputation"
    /\ IF ok
       THEN /\ reputation' = [reputation EXCEPT ![calls[c].reviewee] =
                                 Reputation(calls[c].reviewee)]
            /\ last' = Outcome("review", calls[c].actor, calls[c].id, "none", "Ok")
       ELSE /\ UNCHANGED reputation
            /\ last' = Outcome("review", calls[c].actor, calls[c].id, "none", "InternalServer")
    /\ calls' = Finish(c)
    /\ UNCHANGED reviews
    /\ TradeUnchanged /\ LedgerUnchanged /\ VerifyUnchanged
    /\ UNCHANGED <<exchange_wallet, commitment_fee_usd, cleanup>>

\* ---------------------------------------------------------- specification
Init ==
    /\ trades = <<>>
    /\ nextTradeId = 1
    /\ ledger = <<>>
    /\ clock = 0
    /\ exchange_wallet = ""
    /\ commitment_fee_usd = Unset
    /\ reviews = <<>>
    /\ reputation = [u \in Users |-> NoReputation]
    /\ calls = [c \in Slots |-> Idle]
    /\ vpc = "idle"
    /\ vQueue = <<>>
    /\ vHeight = 0
    /\ vResults = <<>>
    /\ ticks = 0
    /\ cleanup = NoCleanup
    /\ last = Outcome("init", NULL, NULL, "none", "Ok")

\* The trade state machine on its own; the offer kind only selects trade_type,
\* so one kind is enough here.
NextTrade ==
    \/ \E u \in Users : TradeCreate(u)
    \/ \E c \in Slots, u \in Users, t \in TradeIds : AcceptSelect(c, u, t, "xch")
    \/ \E c \in Slots : AcceptUpdate(c)
    \/ \E u \in Users, t \in TradeIds : TradeCancel(u, t)
    \/ \E t \in TradeIds : AdminCancel(t)
    \/ \E u \in Users, t \in TradeIds : TradeCommit(u, t)
    \/ \E u \in Users, t \in TradeIds : TradeComplete(u, t)
    \/ \E u \in Users, t \in TradeIds : TradeDelete(u, t)
    \/ \E t \in TradeIds : AdminDelete(t)

SpecTrade == Init /\ [][NextTrade]_vars

\* One trade proposed by user 1 and accepted by user 2; user 3 stays outside.
MatchOneTrade(slots) ==
    \/ trades = <<>> /\ nextTradeId = 1 /\ TradeCreate(1)
    \/ \E c \in slots, t \in TradeIds : AcceptSelect(c, 2, t, "xch")
    \/ \E c \in slots : AcceptUpdate(c)
    \/ ConfigSetExchangeWallet(NoFee)

\* commitment_create_pending and commitment_submit_tx
LedgerRpc(slots) ==
    \/ \E c \in slots, u \in Users, t \in TradeIds, a \in Amounts :
            CreatePendingBegin(c, u, t, a)
    \/ \E c \in slots : CreatePendingWallet(c)
    \/ \E c \in slots : CreateParticipant(c)
    \/ \E c \in slots : CreateExisting(c)
    \/ \E c \in slots : CreateInsert(c)
    \/ \E u \in Users, i \in RowIds, tx \in TxIds : SubmitTxId(u, i, tx)

\* The ledger: its two RPC methods and the system-only confirm and fail.
NextLedger ==
    \/ MatchOneTrade(Slots)
    \/ LedgerRpc(Slots)
    \/ \E tx \in TxIds, n \in {MIN_CONFIRMATIONS, MIN_CONFIRMATIONS + 1} :
            Confirm(tx, "coin1", n)
    \/ \E tx \in TxIds : Fail(tx, STALE_MESSAGE)

\* The verification loop next to one request handler at a time.
NextVerify ==
    \/ MatchOneTrade(VerifySlots)
    \/ LedgerRpc(VerifySlots)
    \/ \E o \in TickOutcomes, h \in CurrentHeights : TickStart(o, h)
    \/ \E obs \in ObserverAnswers : VerifySingle(obs)
    \/ TickEnd

SpecVerify == Init /\ [][NextVerify]_vars

\* A chain that does not change its mind: "abc" is out of the mempool and
\* confirmed at height 100, "def" stays in the mempool; the peak is at 106 or
\* above.
ConfirmedTx == "abc"
LiveHeights == {106, 107}

TruthfulAnswer(tx) ==
    IF tx = ConfirmedTx
    THEN [in_mempool |-> "no", lookup |-> "ok", confirmed |-> TRUE, at |-> 100]
    ELSE [in_mempool |-> "yes", lookup |-> "none", confirmed |-> FALSE, at |-> NoHeight]

\* the observer answers truthfully or one of its calls fails
LiveAnswers(tx) ==
    {TruthfulAnswer(tx)} \cup
    {o \in ObserverAnswers : o.in_mempool = "err" \/ (tx = ConfirmedTx /\ o.lookup = "err")}

\* the for loop's iteration on row i, any answer
VerifyLive(i) ==
    /\ vpc = "loop"
    /\ vQueue[Len(vResults) + 1].id = i
    /\ \E obs \in LiveAnswers(vQueue[Len(vResults) + 1].tx_id) : VerifySingle(obs)

\* the for loop's iteration on row i when the observer answers both calls
HonestVerify(i) ==
    /\ vpc = "loop"
    /\ vQueue[Len(vResults) + 1].id = i
    /\ VerifySingle(TruthfulAnswer(vQueue[Len(vResults) + 1].tx_id))

NextLive ==
    \/ MatchOneTrade(VerifySlots)
    \/ LedgerRpc(VerifySlots)
    \/ \E o \in TickOutcomes, h \in LiveHeights : TickStart(o, h)
    \/ \E i \in RowIds : VerifyLive(i)
    \/ TickEnd

\* The interval timer keeps firing and every started call returns (weak
\* fairness); the observer answers the height query and the two per-row
\* queries again and again, though not every time (strong fairness).
SpecLive ==
    /\ Init /\ [][NextLive]_vars
    /\ WF_vars(\E o \in TickOutcomes, h \in LiveHeights : TickStart(o, h))
    /\ WF_vars(\E i \in RowIds : VerifyLive(i))
    /\ WF_vars(TickEnd)
    /\ SF_vars(\E h \in LiveHeights : TickStart("Started", h))
    /\ \A i \in RowIds : SF_vars(HonestVerify(i))

SpecLedger == Init /\ [][NextLedger]_vars

\* TransactionBmc::create called directly (any tx_id), time, and the stale
\* cleanup procedure.
NextCleanup ==
    \/ MatchOneTrade(VerifySlots)
    \/ \E c \in Slots, u \in Users, t \in TradeIds, tx \in TxIds \cup {NullStr} :
            Create(c, u, t, tx)
    \/ \E c \in Slots : CreateExisting(c)
    \/ \E c \in Slots : CreateInsert(c)
    \/ \E u \in Users, i \in RowIds, tx \in TxIds : SubmitTxId(u, i, tx)
    \/ Elapse
    \/ CleanupSelect
    \/ CleanupFail

SpecCleanup == Init /\ [][NextCleanup]_vars


\* ------------------------------------------------------------ trade claims
Kept(t) == t \in DOMAIN trades /\ t \in DOMAIN trades'

\* C2 (as stated): in every reachable state a trade's acceptor_id is null
\* if and only if its status is Proposal.
C2_AcceptorNullIffProposal ==
    \A t \in DOMAIN trades :
        (trades[t].acceptor_id = NULL) <=> (trades[t].status = "proposal")

\* C2 (amended): a Proposal trade has no acceptor and a Matched trade has
\* one; a null acceptor_id does not imply Proposal.
C2_ProposalHasNoAcceptor ==
    \A t \in DOMAIN trades :
        /\ trades[t].status = "proposal" => trades[t].acceptor_id = NULL
        /\ trades[t].status = "matched" => trades[t].acceptor_id # NULL

C2_Witness ==
    \E t \in DOMAIN trades :
        /\ trades[t].status = "cancelled" /\ trades[t].acceptor_id = NULL
        /\ last.op = "cancel" /\ last.result = "Ok"
        /\ \E x \in DOMAIN trades : trades[x].status = "matched"

\* C3: proposer_id never changes, and an acceptor_id once set is never
\* overwritten, in any step (interleaved accept calls included).
C3_PartiesImmutable ==
    [][\A t \in TradeIds : Kept(t) =>
          /\ trades'[t].proposer_id = trades[t].proposer_id
          /\ (trades[t].acceptor_id # NULL =>
                  trades'[t].acceptor_id = trades[t].acceptor_id)]_vars

\* C4: no trade ever has acceptor_id = proposer_id; accept by the proposer
\* never succeeds, changes nothing, and on a Proposal trade is a BadRequest.
C4_NoSelfAccept ==
    /\ [](\A t \in DOMAIN trades : trades[t].acceptor_id # trades[t].proposer_id)
    /\ [][\A t \in DOMAIN trades :
            (last'.op = "accept" /\ last'.id = t /\ last'.actor = trades[t].proposer_id) =>
                /\ last'.result \in {"BadRequest", "NotFound"}
                /\ trades' = trades
                /\ (trades[t].status = "proposal" => last'.result = "BadRequest")]_vars

C4_Witness ==
    /\ last.op = "accept" /\ last.result = "BadRequest"
    /\ last.id \in DOMAIN trades
    /\ trades[last.id].proposer_id = last.actor
    /\ trades[last.id].status = "proposal"

\* C5: once a trade is Completed or Cancelled no step changes its status.
C5_TerminalStatusKept ==
    [][\A t \in TradeIds :
          (Kept(t) /\ trades[t].status \in {"completed", "cancelled"}) =>
              trades'[t].status = trades[t].status]_vars

\* ----------------------------------------------------------- ledger claims
ActiveRows(t, u, tx_type) ==
    {i \in DOMAIN ledger :
        /\ ledger[i].trade_id = t /\ ledger[i].user_id = u
        /\ ledger[i].tx_type = tx_type
        /\ ledger[i].status \in {"pending", "mempool"}}

\* C1: for every (trade, user, tx_type) at most one ledger row is Pending or
\* Mempool, in every reachable state, concurrent create calls included.
C1_AtMostOneActive ==
    \A t \in TradeIds, u \in Users : Cardinality(ActiveRows(t, u, "commitment_fee")) <= 1

LedgerMoves ==
    {<<"pending", "mempool">>, <<"pending", "confirmed">>, <<"mempool", "confirmed">>,
     <<"pending", "failed">>, <<"mempool", "failed">>}

\* C6: rows are created Pending; a row's status only changes along
\* Pending->Mempool, {Pending, Mempool}->Confirmed, {Pending, Mempool}->Failed;
\* rows are never removed and a terminal row never changes status.
C6_LedgerTransitions ==
    [][/\ Len(ledger') >= Len(ledger)
       /\ \A i \in DOMAIN ledger' :
            IF i \in DOMAIN ledger
            THEN \/ ledger'[i].status = ledger[i].status
                 \/ <<ledger[i].status, ledger'[i].status>> \in LedgerMoves
            ELSE ledger'[i].status = "pending"]_vars

C6_Witness ==
    /\ \E i \in DOMAIN ledger : ledger[i].status = "failed" /\ ledger[i].mempool_at # NULL
    /\ \E i \in DOMAIN ledger : ledger[i].status = "confirmed"

\* C7: a confirm that directly follows a successful confirm of the same
\* external tx id fails with NotFound and changes no row; confirm of a tx id
\* no row carries fails with NotFound; a Confirmed row is never written again.
C7_ConfirmIdempotent ==
    [][/\ (/\ last.op = "confirm" /\ last.result = "Ok"
           /\ last'.op = "confirm" /\ last'.arg = last.arg)
              => (last'.result = "NotFound" /\ ledger' = ledger)
       /\ (/\ last'.op = "confirm"
           /\ \A i \in DOMAIN ledger : ledger[i].tx_id # last'.arg)
              => (last'.result = "NotFound" /\ ledger' = ledger)
       /\ \A i \in DOMAIN ledger :
            ledger[i].status = "confirmed" => ledger'[i] = ledger[i]]_vars

C7_Witness ==
    /\ last.op = "confirm" /\ last.result = "NotFound"
    /\ \E i \in DOMAIN ledger :
          /\ ledger[i].tx_id = last.arg /\ ledger[i].status = "confirmed"
          /\ ledger[i].confirmations = MIN_CONFIRMATIONS

\* ----------------------------------------------------- verification claims
IsVerifyStep == vResults' # vResults /\ vpc = "loop"

\* The observer's answers of the step meet the claim's condition at height H
MeetsThreshold(obs) ==
    /\ obs.in_mempool = "no"
    /\ obs.lookup = "ok"
    /\ obs.confirmed
    /\ obs.at # NoHeight
    /\ obs.height - obs.at >= 6

\* C8: a verification step on external id x moves a Mempool row carrying x to
\* Confirmed iff x is not in the mempool, its lookup succeeds with confirmed
\* = true and H - confirmed_at_height >= 6; otherwise the row stays as it is.
C8_ConfirmIffThreshold ==
    [][IsVerifyStep =>
          \A i \in DOMAIN ledger :
              (ledger[i].status = "mempool" /\ ledger[i].tx_id = last'.arg) =>
                  IF MeetsThreshold(last'.obs)
                  THEN ledger'[i].status = "confirmed"
                  ELSE ledger'[i] = ledger[i]]_vars

\* Scenario B: confirmed at 100, height 106
C8_Witness ==
    /\ last.op = "verify" /\ last.result = "Confirmed"
    /\ last.obs.at = 100 /\ last.obs.height = 106
    /\ ledger[last.id].status = "confirmed"
    /\ ledger[last.id].confirmations = 6

\* C9: no step of the verification loop moves a row to Failed, and a step
\* whose lookup failed leaves the whole ledger as it was, the examined row
\* still being returned by list_pending_verification.
C9_LoopNeverFails ==
    [][(last'.op \in {"verify", "tick"}) =>
          /\ \A i \in DOMAIN ledger :
                ledger[i].status # "failed" => ledger'[i].status # "failed"
          /\ (IsVerifyStep /\ last'.obs.lookup = "err") =>
                /\ ledger' = ledger
                /\ ledger[last'.id].status = "mempool" =>
                     \E k \in DOMAIN list_pending_verification(ledger') :
                        list_pending_verification(ledger')[k].id = last'.id]_vars

C9_Witness ==
    /\ last.op = "verify" /\ last.obs.lookup = "err"
    /\ ledger[last.id].status = "mempool"
    /\ ledger[last.id].error_message = NullStr

\* C10: a tick examines every row it fetched whatever the earlier results
\* were, and a row examined after an error is Confirmed when it meets the
\* threshold.
C10_BatchNotAborted ==
    /\ [](/\ vpc = "done" => Len(vResults) = Len(vQueue)
          /\ vpc = "loop" => Len(vResults) < Len(vQueue)
          /\ vpc = "idle" => vQueue = <<>>)
    /\ [][(/\ IsVerifyStep
           /\ \E k \in DOMAIN vResults : vResults[k] = "Err"
           /\ ledger[last'.id].status = "mempool"
           /\ MeetsThreshold(last'.obs))
              => ledger'[last'.id].status = "confirmed"]_vars

C10_Witness ==
    /\ vpc = "done"
    /\ \E k \in DOMAIN vResults, j \in DOMAIN vResults :
          k < j /\ vResults[k] = "Err" /\ vResults[j] = "Confirmed"

\* C11: under the fairness of SpecLive, every row in Mempool whose external
\* transaction is out of the mempool for good and confirmed at least 6 blocks
\* below the peak is eventually Confirmed; only re-scanning ticks get it there.
C11_EventuallyConfirmed ==
    \A i \in RowIds :
        (i \in DOMAIN ledger /\ ledger[i].status = "mempool" /\ ledger[i].tx_id = ConfirmedTx)
            ~> (i \in DOMAIN ledger /\ ledger[i].status = "confirmed")

C11_Witness ==
    /\ last.op = "verify" /\ last.result = "Confirmed"
    /\ ledger[last.id].tx_id = ConfirmedTx /\ ledger[last.id].status = "confirmed"
    /\ \E j \in DOMAIN ledger :
          /\ ledger[j].status = "mempool"
          /\ ledger[j].mempool_at < ledger[last.id].mempool_at

FailedTick == last.op = "tick" /\ last.result \in TickFailures

\* C12: a tick that fails as a whole (fetch of the rows, client, height query)
\* writes nothing and leaves the loop waiting for the next interval tick, and
\* after every failed tick another tick runs.
C12_FailedTickKeepsLoop ==
    /\ [][(last'.op = "tick" /\ last'.result \in TickFailures /\ ticks' # ticks) =>
              (vpc' = "idle" /\ ledger' = ledger)]_vars
    /\ \A b \in {0, 1} : (FailedTick /\ ticks = b) ~> (ticks # b)

C12_Witness ==
    /\ FailedTick /\ last.result = "StateErr"
    /\ ticks = 0
    /\ vpc = "idle"
    /\ \E i \in DOMAIN ledger : ledger[i].status = "mempool"

\* ---------------------------------------------------------- cleanup claims
OlderThan24h(row, now) == now - row.created_at > 24

StaleByClaim(row, now) ==
    row.status = "pending" /\ row.tx_id # NullStr /\ OlderThan24h(row, now)

\* C13: a cleanup run fetches the external id of every row that is Pending,
\* carries an external id and is older than 24 hours; each of its fail steps
\* moves the Pending rows of that id to Failed with the fixed message; when
\* the run ends no row that was stale at its start is still Pending; a row
\* without an external id is never touched by cleanup.
C13_CleanupFailsStale ==
    [][/\ (last'.op = "cleanup" /\ last'.result = "Empty") =>
             \A i \in DOMAIN ledger : ~StaleByClaim(ledger[i], clock)
       /\ (last'.op = "cleanup" /\ last'.result = "Started") =>
             \A i \in DOMAIN ledger : StaleByClaim(ledger[i], clock) =>
                 \E k \in DOMAIN cleanup'.queue : cleanup'.queue[k] = ledger[i].tx_id
       /\ (last'.op \in {"cleanup", "cleanup_fail"}) =>
             /\ Len(ledger') = Len(ledger)
             /\ \A i \in DOMAIN ledger : ledger[i].tx_id = NullStr => ledger'[i] = ledger[i]
       /\ (last'.op = "cleanup_fail") =>
             /\ \A i \in DOMAIN ledger :
                   (ledger[i].status = "pending" /\ ledger[i].tx_id = last'.arg) =>
                       /\ ledger'[i].status = "failed"
                       /\ ledger'[i].error_message = STALE_MESSAGE
             /\ (last'.result = "Done") =>
                   \A i \in DOMAIN ledger' : ~StaleByClaim(ledger'[i], cleanup.at)]_vars

\* Scenario D next to a row of the same age that has no external id
C13_Witness ==
    /\ last.op = "cleanup_fail" /\ last.result = "Done"
    /\ \E i \in DOMAIN ledger :
          /\ ledger[i].status = "failed" /\ ledger[i].error_message = STALE_MESSAGE
          /\ ledger[i].tx_id = last.arg
          /\ clock - ledger[i].created_at >= ElapsedHours
    /\ \E j \in DOMAIN ledger :
          /\ ledger[j].status = "pending" /\ ledger[j].tx_id = NullStr
          /\ clock - ledger[j].created_at >= ElapsedHours

\* C14: create by a non-participant fails with Auth; its check for an
\* existing row fails with InvalidState whenever a Pending or Mempool row of
\* the type exists for (trade, actor); either way the ledger is left as it is.
C14_CreateRejects ==
    [][(last'.op = "create_pending") =>
          /\ ~IsParticipant(last'.id, last'.actor) =>
                (last'.result = "Auth" /\ ledger' = ledger)
          /\ (/\ \E c \in Slots : calls[c].pc = "existing" /\ calls'[c] # calls[c]
              /\ ActiveRows(last'.id, last'.actor, "commitment_fee") # {}) =>
                (last'.result = "InvalidState" /\ ledger' = ledger)
          /\ (last'.result \in {"Auth", "InvalidState"}) => ledger' = ledger]_vars

C14_Witness ==
    /\ last.op = "create_pending" /\ last.result = "InvalidState"
    /\ \E i \in ActiveRows(last.id, last.actor, "commitment_fee") :
          ledger[i].status = "mempool"
    /\ \E u \in Users : ~IsParticipant(last.id, u)

\* C15: submit_tx_id on a Pending row by the row's user sets the external id
\* and status Mempool on that row alone; in every other case (other status,
\* other user, absent id) it fails with NotFound and changes no row.
C15_SubmitOnlyFromPending ==
    [][(last'.op = "submit_tx_id") =>
          IF /\ last'.id \in DOMAIN ledger
             /\ ledger[last'.id].status = "pending"
             /\ ledger[last'.id].user_id = last'.actor
          THEN /\ last'.result = "Ok"
               /\ ledger'[last'.id].tx_id = last'.arg
               /\ ledger'[last'.id].status = "mempool"
               /\ \A j \in DOMAIN ledger : j # last'.id => ledger'[j] = ledger[j]
          ELSE /\ last'.result = "NotFound"
               /\ ledger' = ledger]_vars

\* "already submitted": a second submit by the owner is refused, the first
\* external id stays
C15_Witness ==
    /\ last.op = "submit_tx_id" /\ last.result = "NotFound"
    /\ last.id \in DOMAIN ledger
    /\ ledger[last.id].user_id = last.actor
    /\ ledger[last.id].status = "mempool"
    /\ ledger[last.id].tx_id # last.arg

\* C16: fail reports success only when some row carrying the external id is
\* Pending or Mempool; otherwise it does not report success and changes
\* nothing.
C16_FailOnlyFromOpen ==
    [][(last'.op = "fail") =>
          IF \E i \in DOMAIN ledger :
                ledger[i].tx_id = last'.arg /\ ledger[i].status \in {"pending", "mempool"}
          THEN last'.result = "Ok"
          ELSE last'.result # "Ok" /\ ledger' = ledger]_vars

\* C17: commit sets Committed when the actor is a participant and the trade
\* is Matched or Committed; otherwise it fails and the trade keeps its status.
C17_CommitGuard ==
    [][(last'.op = "commit") =>
          IF /\ IsParticipant(last'.id, last'.actor)
             /\ trades[last'.id].status \in {"matched", "committed"}
          THEN last'.result = "Ok" /\ trades'[last'.id].status = "committed"
          ELSE last'.result # "Ok" /\ trades' = trades]_vars

\* C18: self-cancel by the proposer of a Proposal or Matched trade sets
\* Cancelled; by anyone else, or in any other status, it fails with NotFound
\* and changes no trade.
C18_SelfCancel ==
    [][(last'.op = "cancel") =>
          IF /\ last'.id \in DOMAIN trades
             /\ trades[last'.id].proposer_id = last'.actor
             /\ trades[last'.id].status \in {"proposal", "matched"}
          THEN /\ last'.result = "Ok"
               /\ trades' = [trades EXCEPT ![last'.id].status = "cancelled"]
          ELSE /\ last'.result = "NotFound"
               /\ trades' = trades]_vars

C18_Witness ==
    /\ last.op = "cancel" /\ last.result = "NotFound"
    /\ last.id \in DOMAIN trades
    /\ trades[last.id].acceptor_id = last.actor
    /\ trades[last.id].status = "matched"

\* C19: admin cancel sets Cancelled exactly when the trade is Proposal,
\* Matched or Committed; otherwise (Completed, Cancelled, absent id) it fails
\* with NotFound and changes no trade.
C19_AdminCancel ==
    [][(last'.op = "admin_cancel") =>
          IF /\ last'.id \in DOMAIN trades
             /\ trades[last'.id].status \in {"proposal", "matched", "committed"}
          THEN /\ last'.result = "Ok"
               /\ trades' = [trades EXCEPT ![last'.id].status = "cancelled"]
          ELSE /\ last'.result = "NotFound"
               /\ trades' = trades]_vars

\* Scenario E: one trade cancelled by the admin after both sides were in, the
\* same call refused on a Completed trade
C19_Witness ==
    /\ last.op = "admin_cancel" /\ last.result = "NotFound"
    /\ last.id \in DOMAIN trades
    /\ trades[last.id].status = "completed"
    /\ \E t \in DOMAIN trades :
          trades[t].status = "cancelled" /\ trades[t].acceptor_id # NULL

\* C20: a trade disappears only by delete of its proposer while Proposal or
\* by admin delete while Proposal or Cancelled; any other delete fails with
\* NotFound and removes nothing.
C20_RemovedOnlyByDelete ==
    [][/\ \A t \in DOMAIN trades :
            t \notin DOMAIN trades' =>
                \/ /\ last'.op = "delete" /\ last'.id = t /\ last'.result = "Ok"
                   /\ last'.actor = trades[t].proposer_id
                   /\ trades[t].status = "proposal"
                \/ /\ last'.op = "admin_delete" /\ last'.id = t /\ last'.result = "Ok"
                   /\ trades[t].status \in {"proposal", "cancelled"}
       /\ (last'.op \in {"delete", "admin_delete"}) =>
             \/ last'.result = "Ok" /\ last'.id \in DOMAIN trades /\ trades' = Without(last'.id)
             \/ last'.result = "NotFound" /\ trades' = trades]_vars

C20_Witness ==
    /\ last.op = "delete" /\ last.result = "NotFound"
    /\ last.id \in DOMAIN trades
    /\ trades[last.id].proposer_id = last.actor
    /\ trades[last.id].status \in {"matched", "committed", "completed"}

\* ------------------------------------------------- reads, accept and details
\* An offer kind outside the two the match names
AcceptOffers == OfferTypes \cup {"barter"}

\* One trade of any user, every offer kind, and the participant-scoped and
\* public reads next to the status changes.
NextAccess ==
    \/ \E u \in Users : trades = <<>> /\ nextTradeId = 1 /\ TradeCreate(u)
    \/ \E c \in Slots, u \in Users, t \in TradeIds, o \in AcceptOffers : AcceptSelect(c, u, t, o)
    \/ \E c \in Slots : AcceptUpdate(c)
    \/ \E u \in Users, t \in TradeIds : TradeCommit(u, t)
    \/ \E u \in Users, t \in TradeIds : TradeComplete(u, t)
    \/ \E u \in Users, t \in TradeIds : TradeCancel(u, t)
    \/ \E u \in Users, t \in TradeIds : TradeDelete(u, t)
    \/ \E u \in Users, t \in TradeIds : TradeGet(u, t)
    \/ \E t \in TradeIds : TradeGetPublic(t)

SpecAccess == Init /\ [][NextAccess]_vars

\* One trade between users 1 and 2 in every status, the exchange
\* configuration with and without a fee, and commitment_get_details.
NextDetails ==
    \/ MatchOneTrade(VerifySlots)
    \/ \E fee \in Fees : ConfigSetExchangeWallet(fee)
    \/ \E u \in Users, t \in TradeIds : TradeCommit(u, t)
    \/ \E u \in Users, t \in TradeIds : TradeComplete(u, t)
    \/ \E u \in Users, t \in TradeIds : TradeCancel(u, t)
    \/ \E u \in Users, t \in TradeIds : GetCommitmentDetails(u, t)

SpecDetails == Init /\ [][NextDetails]_vars

\* C21: for get, commit, complete, cancel and delete, a caller who is not a
\* participant (get, commit, complete) or not the owner (cancel, delete) of an
\* existing trade gets exactly the outcome of an absent id, NotFound with
\* nothing returned, and the trade table is unchanged.
Outsider(op, u, t) ==
    IF op \in {"cancel", "delete"} THEN trades[t].proposer_id # u ELSE ~IsParticipant(t, u)

C21_ExistenceNotLeaked ==
    [][last'.op \in {"get", "commit", "complete", "cancel", "delete"}
          /\ (last'.id \notin DOMAIN trades \/ Outsider(last'.op, last'.actor, last'.id))
       => /\ last' = Outcome(last'.op, last'.actor, last'.id, "none", "NotFound")
          /\ trades' = trades]_vars

\* An outsider's get, and an owner-only operation by the acceptor, on a trade that exists
C21_Witness ==
    /\ last.op \in {"get", "delete"} /\ last.result = "NotFound"
    /\ last.id \in DOMAIN trades
    /\ ~IsParticipant(last.id, last.actor)

\* C22: get_public returns a trade only while its status is Proposal.
C22_PublicOnlyProposal ==
    last.op = "get_public" /\ last.result = "Ok" => last.out.status = "proposal"

\* C23: get_commitment_details on an existing trade fails with Auth for a
\* caller who is neither proposer nor acceptor, fails with InvalidState for a
\* participant unless the status is Matched or Committed, and returns details
\* only to a participant of a Matched or Committed trade, with the caller's
\* role: proposer for the proposer, acceptor for the acceptor.
C23_DetailsGuards ==
    [][last'.op = "get_details" /\ last'.id \in DOMAIN trades
       => LET u == last'.actor
              row == trades[last'.id]
              party == row.proposer_id = u \/ row.acceptor_id = u
              open == row.status \in {"matched", "committed"}
          IN /\ ~party => last'.result = "Auth"
             /\ party /\ ~open => last'.result = "InvalidState"
             /\ last'.result = "Ok"
                   => /\ party /\ open
                      /\ last'.out.user_role = (IF row.proposer_id = u THEN "proposer"
                                                ELSE "acceptor")
                      /\ last'.out.user_role = "acceptor" => row.acceptor_id = u]_vars

\* Details returned to the acceptor
C23_Witness ==
    last.op = "get_details" /\ last.result = "Ok" /\ last.out.user_role = "acceptor"

\* C24: get_commitment_details changes no trade, ledger or config state; a
\* call that directly follows a call by the same user on the same trade gives
\* the same result and output; and the memo of a returned value is the one
\* built from the trade id and the user id alone.
C24_DetailsReadOnly ==
    [][last'.op = "get_details"
       => /\ UNCHANGED <<trades, nextTradeId, ledger, clock, exchange_wallet,
                         commitment_fee_usd, reviews, reputation>>
          /\ (last.op = "get_details" /\ last.actor = last'.actor /\ last.id = last'.id)
                => last' = last
          /\ last'.result = "Ok"
                => last'.out.memo = <<"DTREX-COMMIT", last'.id, last'.actor>>]_vars

\* Details returned for a Committed trade under a configured fee
C24_Witness ==
    /\ last.op = "get_details" /\ last.result = "Ok"
    /\ trades[last.id].status = "committed"
    /\ last.out.commitment_fee_usd = 250

\* C25: an accept that succeeds leaves the trade Matched with the caller as
\* acceptor and the trade_type of the offer kind (xch: item_for_xch, mixed:
\* mixed, any other kind: item_for_item); accept's first statement on an
\* absent trade or on a trade that is not a Proposal ends in NotFound and
\* changes nothing.
C25_Accept ==
    [][last'.op = "accept"
       => LET t == last'.id
              u == last'.actor
              proposal == t \in DOMAIN trades /\ trades[t].status = "proposal"
          IN /\ last'.result = "Ok" /\ t \in DOMAIN trades
                   => /\ trades'[t].status = "matched"
                      /\ trades'[t].acceptor_id = u
                      /\ last'.arg = "xch" => trades'[t].trade_type = "item_for_xch"
                      /\ last'.arg = "mixed" => trades'[t].trade_type = "mixed"
                      /\ last'.arg \notin {"xch", "mixed"}
                            => trades'[t].trade_type = "item_for_item"
             /\ last'.result # "Ok"
                   => /\ trades' = trades
                      /\ ~proposal <=> last'.result = "NotFound"
                      /\ proposal /\ trades[t].proposer_id # u
                            => last'.result = "Continue"]_vars

\* A mixed offer accepted by a user who is not the proposer
C25_Witness ==
    /\ last.op = "accept" /\ last.result = "Ok" /\ last.arg = "mixed"
    /\ trades[last.id].trade_type = "mixed" /\ trades[last.id].status = "matched"

\* ---------------------------------------------------- reviews and tracking
\* A trade proposed by user 1, and user 2's accept of it
OneTrade(slots) ==
    \/ trades = <<>> /\ nextTradeId = 1 /\ TradeCreate(1)
    \/ \E c \in slots, t \in TradeIds : AcceptSelect(c, 2, t, "xch")
    \/ \E c \in slots : AcceptUpdate(c)

\* One trade between users 1 and 2 (user 3 outside), its status changes, and
\* trade_review handlers running next to each other.
NextReview ==
    \/ OneTrade(VerifySlots)
    \/ \E u \in Users, t \in TradeIds : TradeCommit(u, t)
    \/ \E u \in Users, t \in TradeIds : TradeComplete(u, t)
    \/ \E c \in Slots, u \in Users, t \in TradeIds, s \in Scores : ReviewSelect(c, u, t, s)
    \/ \E c \in Slots : ReviewInsert(c)
    \/ \E c \in Slots, ok \in BOOLEAN : ReviewReputation(c, ok)

SpecReview == Init /\ [][NextReview]_vars

\* One trade of user 1, accepted or not, in every status, and
\* trade_add_tracking handlers running next to each other.
NextTracking ==
    \/ OneTrade(VerifySlots)
    \/ \E u \in Users, t \in TradeIds : TradeCommit(u, t)
    \/ \E u \in Users, t \in TradeIds : TradeComplete(u, t)
    \/ \E u \in Users, t \in TradeIds : TradeCancel(u, t)
    \/ \E c \in Slots, u \in Users, t \in TradeIds, n \in TrackingNumbers, k \in Carriers :
            AddTrackingGet(c, u, t, n, k)
    \/ \E c \in Slots : AddTrackingUpdate(c)

SpecTracking == Init /\ [][NextTracking]_vars

\* C26: no two stored reviews have the same trade and the same reviewer, and a
\* stored review is never changed or removed.
C26_OneReviewPerReviewer ==
    \A i, j \in DOMAIN reviews :
        reviews[i].trade_id = reviews[j].trade_id
            /\ reviews[i].reviewer_id = reviews[j].reviewer_id => i = j

\* C27: trade_review's SELECT ends in NotFound, with no review and no
\* reputation change stored, exactly when the trade is absent, not Completed,
\* or the caller is not its proposer or acceptor; a handler that goes on has
\* chosen the other participant as reviewee, and the review it stores names
\* the caller as reviewer and that participant as reviewee.
C27_ReviewGuards ==
    [][last'.op = "review"
       => LET t == last'.id
              u == last'.actor
              party == t \in DOMAIN trades
                          /\ (trades[t].proposer_id = u \/ trades[t].acceptor_id = u)
              completed == t \in DOMAIN trades /\ trades[t].status = "completed"
          IN /\ last'.result \in {"NotFound", "BadRequest", "Continue"}
                   => /\ reviews' = reviews /\ reputation' = reputation
                      /\ last'.result = "NotFound" <=> ~(party /\ completed)
             /\ last'.result = "Continue"
                   => \E c \in Slots :
                         /\ calls'[c] # calls[c]
                         /\ calls'[c].reviewee # u
                         /\ calls'[c].reviewee \in {trades[t].proposer_id, trades[t].acceptor_id}
             /\ last'.result = "Inserted"
                   => \E c \in Slots :
                         /\ calls'[c] # calls[c]
                         /\ reviews' = Append(reviews,
                                [trade_id |-> t, reviewer_id |-> u,
                                 reviewee_id |-> calls[c].reviewee,
                                 overall_score |-> calls[c].overall])
                         /\ calls[c].reviewee # u]_vars

\* The acceptor's review of the proposer is stored
C27_Witness ==
    /\ last.op = "review" /\ last.result = "Inserted"
    /\ reviews[Len(reviews)].reviewer_id = 2
    /\ reviews[Len(reviews)].reviewee_id = 1

\* C28: a stored review is always counted: the total_trades of its reviewee is
\* the number of distinct trades among the stored reviews of that reviewee.
C28_ReviewCounted ==
    \A i \in DOMAIN reviews :
        LET u == reviews[i].reviewee_id
        IN reputation[u].total_trades =
               Cardinality({reviews[j].trade_id : j \in ReviewsOf(u)})

\* C29: an add_tracking that succeeds on a stored trade finds it non-terminal,
\* leaves its status and parties as they were, writes the number, carrier and
\* shipped time of the caller's side (the proposer's if the caller is the
\* proposer, the acceptor's otherwise) and leaves the other side's three
\* columns as they were; a caller who is not a participant gets NotFound and
\* nothing changes.
C29_TrackingFrame ==
    [][last'.op = "add_tracking"
       => LET t == last'.id
              u == last'.actor
          IN /\ last'.result = "Ok" /\ t \in DOMAIN trades
                   => /\ trades[t].status \notin {"completed", "cancelled"}
                      /\ trades'[t].status = trades[t].status
                      /\ trades'[t].proposer_id = trades[t].proposer_id
                      /\ trades'[t].acceptor_id = trades[t].acceptor_id
                      /\ IF trades[t].proposer_id = u
                         THEN /\ trades'[t].proposer_tracking_number = last'.arg
                              /\ trades'[t].proposer_shipped_at # NULL
                              /\ trades'[t].acceptor_tracking_number = trades[t].acceptor_tracking_number
                              /\ trades'[t].acceptor_tracking_carrier = trades[t].acceptor_tracking_carrier
                              /\ trades'[t].acceptor_shipped_at = trades[t].acceptor_shipped_at
                         ELSE /\ trades'[t].acceptor_tracking_number = last'.arg
                              /\ trades'[t].acceptor_shipped_at # NULL
                              /\ trades'[t].proposer_tracking_number = trades[t].proposer_tracking_number
                              /\ trades'[t].proposer_tracking_carrier = trades[t].proposer_tracking_carrier
                              /\ trades'[t].proposer_shipped_at = trades[t].proposer_shipped_at
             /\ last'.result # "Ok" /\ ~IsParticipant(t, u)
                   => last'.result = "NotFound" /\ trades' = trades]_vars

\* C30: the rows a tick fetches are exactly the ledger rows in Mempool, each
\* once, in the order of their mempool-entry times, oldest first; a tick
\* reports no rows only when there is none in Mempool; and the loop examines
\* the fetched rows in that order.
MempoolRows == {i \in DOMAIN ledger : ledger[i].status = "mempool"}

C30_FetchOrder ==
    [][/\ last'.op = "tick" /\ last'.result = "Started"
            => /\ {vQueue'[k].id : k \in DOMAIN vQueue'} = MempoolRows
               /\ Len(vQueue') = Cardinality(MempoolRows)
               /\ \A k, j \in DOMAIN vQueue' :
                     k < j => ledger[vQueue'[k].id].mempool_at
                                 <= ledger[vQueue'[j].id].mempool_at
               /\ \A k \in DOMAIN vQueue' : vQueue'[k].tx_id = ledger[vQueue'[k].id].tx_id
       /\ last'.op = "tick" /\ last'.result = "Empty" => MempoolRows = {}
       /\ IsVerifyStep
            => /\ last'.id = vQueue[Len(vResults) + 1].id
               /\ Len(vResults') = Len(vResults) + 1
               /\ vQueue' = vQueue]_vars

\* A tick whose second row was fetched first being examined last: row 2
\* entered the mempool before row 1
C30_Witness ==
    /\ last.op = "verify" /\ vpc = "done"
    /\ Len(vQueue) = 2 /\ vQueue[1].id = 2 /\ vQueue[2].id = 1
    /\ last.id = 1

\* ------------------------------------------- commitments and completion
\* C31: a Completed trade has, for each of its two participants, a Confirmed
\* commitment_fee row of that trade.
HasConfirmedFee(t, u) ==
    \E i \in DOMAIN ledger :
        /\ ledger[i].trade_id = t /\ ledger[i].user_id = u
        /\ ledger[i].tx_type = "commitment_fee" /\ ledger[i].status = "confirmed"

C31_CompletedHasCommitments ==
    \A t \in DOMAIN trades :
        trades[t].status = "completed"
            => HasConfirmedFee(t, trades[t].proposer_id) /\ HasConfirmedFee(t, trades[t].acceptor_id)

\* C32: an accept that answers Ok was applied to a stored Proposal trade, and
\* no step takes a trade from Cancelled to Matched.
C32_AcceptAtomic ==
    [][/\ last'.op = "accept" /\ last'.result = "Ok"
            => last'.id \in DOMAIN trades /\ trades[last'.id].status = "proposal"
       /\ \A t \in TradeIds :
            Kept(t) /\ trades[t].status = "cancelled" => trades'[t].status # "matched"]_vars

\* ------------------------------------------------------- amount limits
\* amount_mojos values around the two limits of rpc_commitment_create_pending;
\* an i64 below zero has hi < 0
LimitAmounts ==
    {Mojos(-1, 0), Mojos(0, 0), Mojos(0, 999), Mojos(0, 1000),
     Mojos(9999, 999999999), Mojos(10000, 0), Mojos(10000, 1)}

\* commitment_create_pending with amounts at and around its limits
NextAmounts ==
    \/ MatchOneTrade(VerifySlots)
    \/ \E c \in VerifySlots, u \in Users, t \in TradeIds, a \in LimitAmounts :
            CreatePendingBegin(c, u, t, a)
    \/ \E c \in VerifySlots : CreatePendingWallet(c)
    \/ \E c \in VerifySlots : CreateParticipant(c)
    \/ \E c \in VerifySlots : CreateExisting(c)
    \/ \E c \in VerifySlots : CreateInsert(c)

SpecAmounts == Init /\ [][NextAmounts]_vars

\* C33: every amount that commitment_create_pending lets through, in a handler
\* in flight or in a stored row, is at least 1000 mojos and less than
\* 10,000,000,000,000 mojos.
WithinLimits(amount) == ~Less(amount, Mojos(0, 1000)) /\ Less(amount, Mojos(10000, 0))

C33_AmountLimits ==
    /\ \A c \in Slots : calls[c].op = "create_pending" => WithinLimits(calls[c].n)
    /\ \A i \in DOMAIN ledger : WithinLimits(ledger[i].amount_mojos)

\* ---------------------------------------------------- external tx ids
\* C34: a row made by commitment_create_pending has a null tx id exactly while
\* it is Pending; a row's tx id changes only in a submit_tx_id step, from null
\* to the submitted id, and that step takes the row from Pending to Mempool.
C34_TxIdNullIffPending ==
    /\ [](\A i \in DOMAIN ledger : ledger[i].tx_id = NullStr <=> ledger[i].status = "pending")
    /\ [][\A i \in DOMAIN ledger :
            ledger'[i].tx_id # ledger[i].tx_id
                => /\ last'.op = "submit_tx_id" /\ last'.id = i /\ last'.result = "Ok"
                   /\ ledger[i].tx_id = NullStr /\ ledger[i].status = "pending"
                   /\ ledger'[i].tx_id = last'.arg /\ ledger'[i].tx_id # NullStr
                   /\ ledger'[i].status = "mempool"]_vars

\* A row that was submitted and then failed still carries its tx id
C34_Witness ==
    \E i \in DOMAIN ledger : ledger[i].status = "failed" /\ ledger[i].tx_id = "abc"

\* ------------------------------------------------- rows out of the way
RowsOf(t, u, tx_type) ==
    {i \in DOMAIN ledger :
        ledger[i].trade_id = t /\ ledger[i].user_id = u /\ ledger[i].tx_type = tx_type}

NextSerial ==
    \/ MatchOneTrade(VerifySlots)
    \/ LedgerRpc(VerifySlots)
    \/ \E tx \in TxIds, n \in {MIN_CONFIRMATIONS, MIN_CONFIRMATIONS + 1} :
            Confirm(tx, "coin1", n)
    \/ \E tx \in TxIds : Fail(tx, STALE_MESSAGE)

SpecSerial == Init /\ [][NextSerial]_vars

\* C36: when creates do not interleave, every (trade, user, tx_type) has at
\* most one row that is Pending, Mempool or Confirmed, and a create that finds
\* a Confirmed row of its triple ends in InvalidState without storing a row.
LiveRows(t, u, tx_type) ==
    {i \in RowsOf(t, u, tx_type) : ledger[i].status \in {"pending", "mempool", "confirmed"}}

C36_OneLiveRow ==
    /\ [](\A t \in TradeIds, u \in Users : Cardinality(LiveRows(t, u, "commitment_fee")) <= 1)
    /\ [][(/\ last'.op = "create_pending"
           /\ \E i \in RowsOf(last'.id, last'.actor, "commitment_fee") :
                 ledger[i].status = "confirmed")
            => /\ last'.result # "Ok"
               /\ ledger' = ledger
               /\ (\E c \in Slots : calls[c].op = "create_pending" /\ calls[c].pc = "existing"
                                       /\ calls'[c] # calls[c])
                     => last'.result = "InvalidState"]_vars

\* A create turned away by the caller's Confirmed row
C36_Witness ==
    /\ last.op = "create_pending" /\ last.result = "InvalidState"
    /\ \E i \in RowsOf(last.id, last.actor, "commitment_fee") : ledger[i].status = "confirmed"

\* C37: no two ledger rows carry the same non-null tx id.
C37_TxIdUnique ==
    \A i, j \in DOMAIN ledger :
        ledger[i].tx_id # NullStr /\ ledger[i].tx_id = ledger[j].tx_id => i = j

\* ------------------------------------------- rows of a cancelled trade
\* The ledger and the verification loop next to cancel, admin_cancel and
\* delete of the trade the rows belong to.
NextOrphan ==
    \/ MatchOneTrade(VerifySlots)
    \/ LedgerRpc(VerifySlots)
    \/ \E u \in Users, t \in TradeIds : TradeCancel(u, t)
    \/ \E t \in TradeIds : AdminCancel(t)
    \/ \E u \in Users, t \in TradeIds : TradeDelete(u, t)
    \/ \E o \in TickOutcomes, h \in CurrentHeights : TickStart(o, h)
    \/ \E obs \in ObserverAnswers : VerifySingle(obs)
    \/ TickEnd

SpecOrphan == Init /\ [][NextOrphan]_vars

NextSystem ==
    \/ MatchOneTrade(VerifySlots)
    \/ \E u \in Users, t \in TradeIds : TradeCommit(u, t)
    \/ \E u \in Users, t \in TradeIds : TradeComplete(u, t)
    \/ \E u \in Users, t \in TradeIds : TradeCancel(u, t)
    \/ \E u \in Users, t \in TradeIds : TradeDelete(u, t)
    \/ \E c \in VerifySlots, t \in TradeIds, k \in Carriers :
            AddTrackingGet(c, 1, t, "TN1", k)
    \/ \E c \in VerifySlots : AddTrackingUpdate(c)
    \/ \E c \in VerifySlots, t \in TradeIds :
            CreatePendingBegin(c, 1, t, Mojos(0, 2000))
    \/ \E c \in VerifySlots : CreatePendingWallet(c)
    \/ \E c \in VerifySlots : CreateParticipant(c)
    \/ \E c \in VerifySlots : CreateExisting(c)
    \/ \E c \in VerifySlots : CreateInsert(c)
    \/ \E i \in RowIds : SubmitTxId(1, i, ConfirmedTx)
    \/ \E h \in LiveHeights : TickStart("Started", h)
    \/ \E i \in RowIds : HonestVerify(i)
    \/ TickEnd

SpecSystem == Init /\ [][NextSystem]_vars

\* C39: every stored trade is in Proposal, Matched, Committed, Completed or
\* Cancelled; none is ever in Escrow.
C39_NoEscrow ==
    \A t \in DOMAIN trades :
        /\ trades[t].status # "escrow"
        /\ trades[t].status \in {"proposal", "matched", "committed", "completed", "cancelled"}

\* A trade that went through Committed, with a Confirmed commitment and a
\* shipment, is Completed
C39_Witness ==
    \E t \in DOMAIN trades :
        /\ trades[t].status = "completed" /\ last.op = "complete"
        /\ trades[t].proposer_shipped_at # NULL
        /\ \E i \in DOMAIN ledger : ledger[i].trade_id = t /\ ledger[i].status = "confirmed"

====
